---- MODULE Spec2Model ----
(***************************************************************************)
(* Risk-Redux: the deterministic decision engine evaluate_v1, of which the *)
(* repository holds four copies.                                           *)
(*                                                                         *)
(*   src/unnamed/part_000 : 46-100   evaluate_v1, rule-parameterised       *)
(*   src/app/page.tsx     : 86-187   evaluate_v1, limits hard-coded        *)
(*   src/app/page.tsx     : 566-620  evaluate_v1, early reduced engine     *)
(*   src/app/page.tsx     : 814-892  evaluate_v1, rule-parameterised       *)
(*                                                                         *)
(* Around the engine each copy has a Page: the exposure aggregation over   *)
(* the ledger (part_000 128-141; page.tsx 238-267, 640-667, 948-973), the  *)
(* localStorage load and save functions, and the handlers addToLedger and  *)
(* resetLedger.  Four specifications share the variables:                  *)
(*                                                                         *)
(*   Spec         one evaluation by one of the four engines                *)
(*   SpecAgg      one aggregation of a ledger at a clock reading           *)
(*   SpecPage     a session of a page: mount, add, reset, edit, clock      *)
(*   SpecSession  a session over several days with the id field edited     *)
(*                                                                         *)
(* Numbers.  Money amounts (bankroll, stake, the four staked sums) are     *)
(* integers counting cents, so 20.01 is 2001.  A cap is                    *)
(* B * (pct / 100); the model keeps the cap multiplied by 100, that is     *)
(* B * pct, and compares 100 * x > B * pct, which is x > B * pct / 100 in  *)
(* exact arithmetic.  Odds are JavaScript numbers that may be fractional   *)
(* or non-finite: a finite one is the fraction num/den (den > 0), the      *)
(* others are NaN and Infinity.                                            *)
(***************************************************************************)
EXTENDS Integers, Sequences, FiniteSets

VARIABLES bankroll, rules, bet, exp, beh, engine, decision,
          page, phase, ledger, ui, store, now, nAdded

\* the state of a page around the engine: which copy of Page is running, how
\* far it has come, its ledger and form fields, localStorage, the wall clock
\* and the ids handed out by crypto.randomUUID
pageVars == <<page, phase, ledger, ui, store, now, nAdded>>

vars == <<bankroll, rules, bet, exp, beh, engine, decision, pageVars>>

(***************************************************************************)
(* Bounds of the behavioural counters.                                     *)
(***************************************************************************)
MaxOverrides == 3

MaxCdViolations == 1

(***************************************************************************)
(* Reason codes and default rules.                                         *)
(***************************************************************************)
R ==
  [ UNIT        |-> "UNIT_SIZE_CAP_EXCEEDED",
    DAILY       |-> "DAILY_EXPOSURE_CAP_EXCEEDED",
    WEEKLY      |-> "WEEKLY_EXPOSURE_CAP_EXCEEDED",
    EVENT       |-> "SAME_EVENT_CONCENTRATION_CAP_EXCEEDED",
    TEAM        |-> "SAME_TEAM_7D_CONCENTRATION_CAP_EXCEEDED",
    FREQ        |-> "ACTION_FREQUENCY_CAP_EXCEEDED",
    ODDS        |-> "HIGH_RISK_ODDS_GATE",
    STAKE_SPIKE |-> "STAKE_VELOCITY_SPIKE",
    FREQ_SPIKE  |-> "FREQUENCY_SPIKE",
    CONS_OVR    |-> "CONSECUTIVE_OVERRIDES_HIGH",
    CD_HIST     |-> "COOLDOWN_VIOLATION_HISTORY",
    CD_ACTIVE   |-> "COOLDOWN_ACTIVE" ]

DEFAULT_RULES ==
  [ unit_pct |-> 2, daily_pct |-> 6, weekly_pct |-> 20, group1_pct |-> 4,
    group2_pct |-> 8, freq_cap |-> 5, odds_gate |-> 250 ]

(***************************************************************************)
(* JavaScript numbers as used for bet.odds.                                *)
(***************************************************************************)
Fin(n, d) == [k |-> "fin", num |-> n, den |-> d]

NaN == [k |-> "nan", num |-> 0, den |-> 1]

PosInfinity == [k |-> "inf", num |-> 1, den |-> 1]

NumberIsFinite(n) == n.k = "fin"

NumberIsInteger(n) == n.k = "fin" /\ n.num % n.den = 0

\* n !== 0
NotZero(n) == ~(n.k = "fin" /\ n.num = 0)

\* n >= t for an integer threshold t: false for NaN, true for Infinity
NumberGE(n, t) ==
  CASE n.k = "fin" -> n.num >= t * n.den
    [] n.k = "inf" -> TRUE
    [] OTHER       -> FALSE

isValidAmericanOdds(n) == NumberIsFinite(n) /\ NumberIsInteger(n) /\ NotZero(n)

(***************************************************************************)
(* Verdict tiers.                                                          *)
(***************************************************************************)
rank(v) == IF v = "ALLOW" THEN 0 ELSE IF v = "WARN" THEN 1 ELSE IF v = "HARD_WARN" THEN 2 ELSE 3

\* maxTier as a plain assignment of the floor: verdict = "HARD_WARN"
maxTier_assign(a, b) == b

\* maxTier with the branches exchanged: the lower of the two tiers
maxTier_lower(a, b) == IF rank(a) >= rank(b) THEN b ELSE a

maxTier(a, b) == IF rank(a) >= rank(b) THEN a ELSE b

\* escalateOneTier as a tier index incremented modulo 4: RED_ALERT wraps to ALLOW
escalateOneTier_wraps(v) ==
  IF v = "ALLOW" THEN "WARN" ELSE IF v = "WARN" THEN "HARD_WARN"
  ELSE IF v = "HARD_WARN" THEN "RED_ALERT" ELSE "ALLOW"

escalateOneTier(v) == IF v = "ALLOW" THEN "WARN" ELSE IF v = "WARN" THEN "HARD_WARN" ELSE "RED_ALERT"

\* violations.push(...) under a condition
PushIf(seq, cond, code) == IF cond THEN Append(seq, code) ELSE seq

\* violations.includes(code)
Includes(seq, code) == \E i \in 1..Len(seq) : seq[i] = code

(***************************************************************************)
(* The steps of the full engine (part_000 46-100; page.tsx 814-892 is the  *)
(* same statement for statement).                                          *)
(***************************************************************************)
\* capThresholds with the unit cap taken from daily_pct (a copied line)
capThresholds_copiedLine(B, r) ==
  [ unit_cap   |-> B * r.daily_pct,
    daily_cap  |-> B * r.daily_pct,
    weekly_cap |-> B * r.weekly_pct,
    event_cap  |-> B * r.group1_pct,
    team_cap   |-> B * r.group2_pct ]

\* caps, each multiplied by 100
capThresholds(B, r) ==
  [ unit_cap   |-> B * r.unit_pct,
    daily_cap  |-> B * r.daily_pct,
    weekly_cap |-> B * r.weekly_pct,
    event_cap  |-> B * r.group1_pct,
    team_cap   |-> B * r.group2_pct ]

projections(S, e) ==
  [ post_daily  |-> e.daily_staked + S,
    post_weekly |-> e.weekly_staked + S,
    post_event  |-> e.same_group1_staked + S,
    post_team7d |-> e.same_group2_7d_staked + S,
    post_bets   |-> e.bets_today + 1 ]

\* capViolations with >= in place of > in the weekly and frequency checks
capViolations_nonStrict(S, caps, post, freq_cap) ==
  LET v1 == PushIf(<<>>, 100 * S > caps.unit_cap, R.UNIT)
      v2 == PushIf(v1, 100 * post.post_daily > caps.daily_cap, R.DAILY)
      v3 == PushIf(v2, 100 * post.post_weekly >= caps.weekly_cap, R.WEEKLY)
      v4 == PushIf(v3, 100 * post.post_event > caps.event_cap, R.EVENT)
      v5 == PushIf(v4, 100 * post.post_team7d > caps.team_cap, R.TEAM)
  IN  PushIf(v5, post.post_bets >= freq_cap, R.FREQ)

\* capViolations with the unit check turned round: a stake under the unit cap
\* is reported, a stake over it is not
capViolations_unitBelow(S, caps, post, freq_cap) ==
  LET v1 == PushIf(<<>>, 100 * S < caps.unit_cap, R.UNIT)
      v2 == PushIf(v1, 100 * post.post_daily > caps.daily_cap, R.DAILY)
      v3 == PushIf(v2, 100 * post.post_weekly > caps.weekly_cap, R.WEEKLY)
      v4 == PushIf(v3, 100 * post.post_event > caps.event_cap, R.EVENT)
      v5 == PushIf(v4, 100 * post.post_team7d > caps.team_cap, R.TEAM)
  IN  PushIf(v5, post.post_bets > freq_cap, R.FREQ)

capViolations(S, caps, post, freq_cap) ==
  LET v1 == PushIf(<<>>, 100 * S > caps.unit_cap, R.UNIT)
      v2 == PushIf(v1, 100 * post.post_daily > caps.daily_cap, R.DAILY)
      v3 == PushIf(v2, 100 * post.post_weekly > caps.weekly_cap, R.WEEKLY)
      v4 == PushIf(v3, 100 * post.post_event > caps.event_cap, R.EVENT)
      v5 == PushIf(v4, 100 * post.post_team7d > caps.team_cap, R.TEAM)
  IN  PushIf(v5, post.post_bets > freq_cap, R.FREQ)

oddsGates(odds, odds_gate) ==
  LET oddsInvalid == ~isValidAmericanOdds(odds)
  IN  PushIf(<<>>, oddsInvalid \/ NumberGE(odds, odds_gate), R.ODDS)

\* behaviorFlags with the second push copied from the first: both spikes
\* report STAKE_VELOCITY_SPIKE
behaviorFlags_copiedPush(b) ==
  LET f1 == PushIf(<<>>, b.stake_velocity_spike, R.STAKE_SPIKE)
      f2 == PushIf(f1, b.frequency_spike, R.STAKE_SPIKE)
      f3 == PushIf(f2, b.consecutive_overrides >= 2, R.CONS_OVR)
  IN  PushIf(f3, b.cooldown_violations >= 1, R.CD_HIST)

behaviorFlags(b) ==
  LET f1 == PushIf(<<>>, b.stake_velocity_spike, R.STAKE_SPIKE)
      f2 == PushIf(f1, b.frequency_spike, R.FREQ_SPIKE)
      f3 == PushIf(f2, b.consecutive_overrides >= 2, R.CONS_OVR)
  IN  PushIf(f3, b.cooldown_violations >= 1, R.CD_HIST)

\* baseVerdict without the branch for "no violation but a gate"
baseVerdict_noGateBranch(vCount, gCount) ==
  IF vCount = 0 /\ gCount = 0 THEN "ALLOW"
  ELSE IF vCount = 1 THEN "WARN"
  ELSE IF vCount >= 2 THEN "HARD_WARN"
  ELSE "ALLOW"

baseVerdict(vCount, gCount) ==
  IF vCount = 0 /\ gCount = 0 THEN "ALLOW"
  ELSE IF vCount = 0 /\ gCount > 0 THEN "WARN"
  ELSE IF vCount = 1 THEN "WARN"
  ELSE IF vCount >= 2 THEN "HARD_WARN"
  ELSE "ALLOW"

\* amplify with rule 1 testing the daily code instead of the weekly code
amplify_wrongCode(base, violations, gates, b) ==
  LET vCount == Len(violations)
      spike  == b.stake_velocity_spike \/ b.frequency_spike
      a1 == IF Includes(violations, R.DAILY) THEN "RED_ALERT" ELSE base
      a2 == IF b.consecutive_overrides >= 3 THEN "RED_ALERT" ELSE a1
      a3 == IF b.cooldown_violations >= 1 /\ vCount >= 1 THEN "RED_ALERT" ELSE a2
      a4 == IF vCount >= 1 /\ spike THEN escalateOneTier(a3) ELSE a3
  IN  IF Includes(gates, R.ODDS) /\ spike THEN maxTier(a4, "HARD_WARN") ELSE a4

\* amplify with rule 2 testing consecutive_overrides > 3
amplify_offByOne(base, violations, gates, b) ==
  LET vCount == Len(violations)
      spike  == b.stake_velocity_spike \/ b.frequency_spike
      a1 == IF Includes(violations, R.WEEKLY) THEN "RED_ALERT" ELSE base
      a2 == IF b.consecutive_overrides > 3 THEN "RED_ALERT" ELSE a1
      a3 == IF b.cooldown_violations >= 1 /\ vCount >= 1 THEN "RED_ALERT" ELSE a2
      a4 == IF vCount >= 1 /\ spike THEN escalateOneTier(a3) ELSE a3
  IN  IF Includes(gates, R.ODDS) /\ spike THEN maxTier(a4, "HARD_WARN") ELSE a4

\* amplify with rule 5 escalating one tier instead of raising to HARD_WARN
amplify_gateEscalates(base, violations, gates, b) ==
  LET vCount == Len(violations)
      spike  == b.stake_velocity_spike \/ b.frequency_spike
      a1 == IF Includes(violations, R.WEEKLY) THEN "RED_ALERT" ELSE base
      a2 == IF b.consecutive_overrides >= 3 THEN "RED_ALERT" ELSE a1
      a3 == IF b.cooldown_violations >= 1 /\ vCount >= 1 THEN "RED_ALERT" ELSE a2
      a4 == IF vCount >= 1 /\ spike THEN escalateOneTier(a3) ELSE a3
  IN  IF Includes(gates, R.ODDS) /\ spike THEN escalateOneTier(maxTier(a4, "WARN")) ELSE a4

amplify(base, violations, gates, b) ==
  LET vCount == Len(violations)
      spike  == b.stake_velocity_spike \/ b.frequency_spike
      a1 == IF Includes(violations, R.WEEKLY) THEN "RED_ALERT" ELSE base
      a2 == IF b.consecutive_overrides >= 3 THEN "RED_ALERT" ELSE a1
      a3 == IF b.cooldown_violations >= 1 /\ vCount >= 1 THEN "RED_ALERT" ELSE a2
      a4 == IF vCount >= 1 /\ spike THEN escalateOneTier(a3) ELSE a3
  IN  IF Includes(gates, R.ODDS) /\ spike THEN maxTier(a4, "HARD_WARN") ELSE a4

cooldownStop ==
  [ verdict |-> "RED_ALERT", reasons |-> <<R.CD_ACTIVE>>,
    friction_required |-> TRUE, cooldown_triggered |-> TRUE ]

assemble(verdict, violations, gates, flags) ==
  [ verdict |-> verdict,
    reasons |-> violations \o gates \o flags,
    friction_required |-> (verdict # "ALLOW"),
    cooldown_triggered |-> (verdict = "RED_ALERT") ]

\* evaluate_v1 with the cooldown test placed after the flags are collected, so
\* that the hard stop returns them too
evaluate_v1_lateStop(B, r, b, e, h) ==
  LET violations == capViolations(b.stake, capThresholds(B, r), projections(b.stake, e), r.freq_cap)
      gates      == oddsGates(b.odds, r.odds_gate)
      flags      == behaviorFlags(h)
      verdict    == amplify(baseVerdict(Len(violations), Len(gates)), violations, gates, h)
  IN  IF h.cooldown_active
      THEN [ verdict |-> "RED_ALERT", reasons |-> <<R.CD_ACTIVE>> \o flags,
             friction_required |-> TRUE, cooldown_triggered |-> TRUE ]
      ELSE assemble(verdict, violations, gates, flags)

\* src/unnamed/part_000 46-100
evaluate_v1(B, r, b, e, h) ==
  IF h.cooldown_active THEN cooldownStop
  ELSE
    LET violations == capViolations(b.stake, capThresholds(B, r), projections(b.stake, e), r.freq_cap)
        gates      == oddsGates(b.odds, r.odds_gate)
        flags      == behaviorFlags(h)
        verdict    == amplify(baseVerdict(Len(violations), Len(gates)), violations, gates, h)
    IN  assemble(verdict, violations, gates, flags)

\* src/app/page.tsx 814-892: the same engine, restated in the page
evaluate_v1_rules(B, r, b, e, h) ==
  IF h.cooldown_active THEN cooldownStop
  ELSE
    LET caps       == capThresholds(B, r)
        post       == projections(b.stake, e)
        violations == capViolations(b.stake, caps, post, r.freq_cap)
        gates      == oddsGates(b.odds, r.odds_gate)
        flags      == behaviorFlags(h)
        base       == baseVerdict(Len(violations), Len(gates))
        verdict    == amplify(base, violations, gates, h)
    IN  assemble(verdict, violations, gates, flags)

(***************************************************************************)
(* page.tsx 86-187: the engine with the limits written into the code       *)
(* (B * 0.02, B * 0.06, B * 0.20, B * 0.04, B * 0.08, 5 bets, odds 250).   *)
(* It takes no rules argument.                                             *)
(***************************************************************************)
\* fixedThresholds with a unit cap of 1% of the bankroll
fixedThresholds_unit1pct(B) ==
  [ unit_cap   |-> B * 1,
    daily_cap  |-> B * 6,
    weekly_cap |-> B * 20,
    event_cap  |-> B * 4,
    team_cap   |-> B * 8 ]

fixedThresholds(B) ==
  [ unit_cap   |-> B * 2,
    daily_cap  |-> B * 6,
    weekly_cap |-> B * 20,
    event_cap  |-> B * 4,
    team_cap   |-> B * 8 ]

evaluate_v1_fixed(B, b, e, h) ==
  IF h.cooldown_active = TRUE THEN cooldownStop
  ELSE
    LET violations == capViolations(b.stake, fixedThresholds(B), projections(b.stake, e), 5)
        gates      == oddsGates(b.odds, 250)
        flags      == behaviorFlags(h)
        verdict    == amplify(baseVerdict(Len(violations), Len(gates)), violations, gates, h)
    IN  assemble(verdict, violations, gates, flags)

(***************************************************************************)
(* page.tsx 566-620: the reduced engine.  Its DecisionResult has only      *)
(* verdict and reasons; it has its own group codes, tests only             *)
(* Number.isInteger on the odds, collects no flags, has no branch for      *)
(* "no violation but a gate" and applies only the weekly amplification.    *)
(***************************************************************************)
evaluate_v1_basic(B, r, b, e, h) ==
  IF h.cooldown_active THEN [verdict |-> "RED_ALERT", reasons |-> <<"COOLDOWN_ACTIVE">>]
  ELSE
    LET S    == b.stake
        caps == capThresholds(B, r)
        post == projections(S, e)
        v1 == PushIf(<<>>, 100 * S > caps.unit_cap, "UNIT_SIZE_CAP_EXCEEDED")
        v2 == PushIf(v1, 100 * post.post_daily > caps.daily_cap, "DAILY_EXPOSURE_CAP_EXCEEDED")
        v3 == PushIf(v2, 100 * post.post_weekly > caps.weekly_cap, "WEEKLY_EXPOSURE_CAP_EXCEEDED")
        v4 == PushIf(v3, 100 * post.post_event > caps.event_cap, "GROUP1_CAP_EXCEEDED")
        v5 == PushIf(v4, 100 * post.post_team7d > caps.team_cap, "GROUP2_7D_CAP_EXCEEDED")
        violations == PushIf(v5, post.post_bets > r.freq_cap, "ACTION_FREQUENCY_CAP_EXCEEDED")
        gates == PushIf(<<>>, ~NumberIsInteger(b.odds) \/ NumberGE(b.odds, r.odds_gate),
                        "HIGH_RISK_ODDS_GATE")
        base == IF Len(violations) = 0 /\ Len(gates) = 0 THEN "ALLOW"
                ELSE IF Len(violations) = 1 THEN "WARN"
                ELSE IF Len(violations) >= 2 THEN "HARD_WARN"
                ELSE "ALLOW"
        verdict == IF Includes(violations, "WEEKLY_EXPOSURE_CAP_EXCEEDED") THEN "RED_ALERT" ELSE base
    IN  [verdict |-> verdict, reasons |-> violations \o gates]

(***************************************************************************)
(* Inputs.  Bankroll 500.00 and 1000.00; the default rules and a second    *)
(* configuration that differs in the unit cap, the frequency cap and the   *)
(* odds gate;                                                              *)
(* stakes 20.00, 20.01 and 25.00; exposures that are empty or sit where a  *)
(* stake of 20.00 lands exactly on the default cap.  An evaluation under   *)
(* cooldown reads none of its other arguments, so under cooldown the       *)
(* exposures are only the two extremes (all empty, all at the boundary).   *)
(***************************************************************************)
BankrollValues == {50000, 100000}

ALT_RULES ==
  [ unit_pct |-> 5, daily_pct |-> 6, weekly_pct |-> 20, group1_pct |-> 4,
    group2_pct |-> 8, freq_cap |-> 4, odds_gate |-> 150 ]

RuleValues == {DEFAULT_RULES, ALT_RULES}

StakeValues == {2000, 2001, 2500}

OddsValues ==
  { Fin(-110, 1), Fin(0, 1), Fin(150, 1), Fin(301, 2), Fin(250, 1), NaN, PosInfinity }

BetValues ==
  [ stake : StakeValues, odds : OddsValues, group1_id : {"EVENT-1"}, group2_id : {"TEAM-1"} ]

ExposureValues ==
  [ daily_staked : {0, 4000}, weekly_staked : {0, 18000}, same_group1_staked : {0, 2000},
    same_group2_7d_staked : {0, 6000}, bets_today : {0, 4, 5} ]

BehaviorValues ==
  [ stake_velocity_spike : BOOLEAN, frequency_spike : BOOLEAN,
    consecutive_overrides : 0..MaxOverrides, cooldown_violations : 0..MaxCdViolations,
    cooldown_active : BOOLEAN ]

ExposureExtremes ==
  { [ daily_staked |-> 0, weekly_staked |-> 0, same_group1_staked |-> 0,
      same_group2_7d_staked |-> 0, bets_today |-> 0 ],
    [ daily_staked |-> 4000, weekly_staked |-> 18000, same_group1_staked |-> 2000,
      same_group2_7d_staked |-> 6000, bets_today |-> 5 ] }

NoDecision == [verdict |-> "NONE", reasons |-> <<>>]

(***************************************************************************)
(* State machine: the arguments of one evaluation are fixed at the start;  *)
(* one of the four engines is then applied to them.                        *)
(***************************************************************************)
Init ==
  /\ bankroll \in BankrollValues
  /\ rules \in RuleValues
  /\ bet \in BetValues
  /\ exp \in ExposureValues
  /\ beh \in BehaviorValues
  /\ beh.cooldown_active => exp \in ExposureExtremes
  /\ engine = "none"
  /\ decision = NoDecision
  /\ page = "none"
  /\ phase = "engine"
  /\ ledger = <<>>
  /\ ui = [stake |-> bet.stake, odds |-> bet.odds, group1 |-> bet.group1_id, group2 |-> bet.group2_id]
  /\ store = [ledger |-> [k |-> "absent"], rules |-> [k |-> "absent"]]
  /\ now = 0
  /\ nAdded = 0

Call_evaluate_v1 ==
  /\ engine = "none"
  /\ engine' = "part_000"
  /\ decision' = evaluate_v1(bankroll, rules, bet, exp, beh)
  /\ UNCHANGED <<bankroll, rules, bet, exp, beh, pageVars>>

Call_evaluate_v1_rules ==
  /\ engine = "none"
  /\ engine' = "page_rules"
  /\ decision' = evaluate_v1_rules(bankroll, rules, bet, exp, beh)
  /\ UNCHANGED <<bankroll, rules, bet, exp, beh, pageVars>>

Call_evaluate_v1_fixed ==
  /\ engine = "none"
  /\ engine' = "page_fixed"
  /\ decision' = evaluate_v1_fixed(bankroll, bet, exp, beh)
  /\ UNCHANGED <<bankroll, rules, bet, exp, beh, pageVars>>

Call_evaluate_v1_basic ==
  /\ engine = "none"
  /\ engine' = "page_basic"
  /\ decision' = evaluate_v1_basic(bankroll, rules, bet, exp, beh)
  /\ UNCHANGED <<bankroll, rules, bet, exp, beh, pageVars>>

Next ==
  \/ Call_evaluate_v1
  \/ Call_evaluate_v1_rules
  \/ Call_evaluate_v1_fixed
  \/ Call_evaluate_v1_basic

Spec == Init /\ [][Next]_vars

(***************************************************************************)
(* Time.  A timestamp is a number of milliseconds counted from a local     *)
(* Monday 00:00:00.000; every local day in the modelled weeks has 24       *)
(* hours (no daylight-saving change), so the Date arithmetic of the        *)
(* source is arithmetic modulo the day.                                    *)
(***************************************************************************)
MS_HOUR == 60 * 60 * 1000

MS_DAY == 24 * MS_HOUR

MS_7D == 7 * 24 * 60 * 60 * 1000

\* Date.getDay(): 0 = Sunday .. 6 = Saturday
getDay(t) == ((t \div MS_DAY) + 1) % 7

startOfLocalDay(t) == t - (t % MS_DAY)

startOfISOWeekLocal(t) ==
  LET day          == getDay(t)
      diffToMonday == (IF day = 0 THEN -6 ELSE 1) - day
  IN  startOfLocalDay(t + diffToMonday * MS_DAY)

(***************************************************************************)
(* Exposure aggregation: one pass over the ledger.                         *)
(***************************************************************************)
NoExposures ==
  [ daily_staked |-> 0, weekly_staked |-> 0, same_group1_staked |-> 0,
    same_group2_7d_staked |-> 0, bets_today |-> 0 ]

\* the loop body with the seven-day test written with > : an entry stamped
\* exactly seven days before the clock reading is left out
computeExposures_body_strict7d(acc, e, q) ==
  LET a1 == IF e.ts >= q.dayStart
            THEN [acc EXCEPT !.daily_staked = @ + e.stake,
                             !.bets_today = @ + 1,
                             !.same_group1_staked =
                                IF e.group1_id = q.group1_id THEN @ + e.stake ELSE @]
            ELSE acc
      a2 == IF e.ts >= q.weekStart THEN [a1 EXCEPT !.weekly_staked = @ + e.stake] ELSE a1
  IN  IF e.ts > q.t7 /\ e.group2_id = q.group2_id
      THEN [a2 EXCEPT !.same_group2_7d_staked = @ + e.stake]
      ELSE a2

\* the body of "for (const e of ledger)" of computeExposures
computeExposures_body(acc, e, q) ==
  LET a1 == IF e.ts >= q.dayStart
            THEN [acc EXCEPT !.daily_staked = @ + e.stake,
                             !.bets_today = @ + 1,
                             !.same_group1_staked =
                                IF e.group1_id = q.group1_id THEN @ + e.stake ELSE @]
            ELSE acc
      a2 == IF e.ts >= q.weekStart THEN [a1 EXCEPT !.weekly_staked = @ + e.stake] ELSE a1
  IN  IF e.ts >= q.t7 /\ e.group2_id = q.group2_id
      THEN [a2 EXCEPT !.same_group2_7d_staked = @ + e.stake]
      ELSE a2

\* the five running totals after two stretches of the loop
plus(a, b) ==
  [ daily_staked |-> a.daily_staked + b.daily_staked,
    weekly_staked |-> a.weekly_staked + b.weekly_staked,
    same_group1_staked |-> a.same_group1_staked + b.same_group1_staked,
    same_group2_7d_staked |-> a.same_group2_7d_staked + b.same_group2_7d_staked,
    bets_today |-> a.bets_today + b.bets_today ]

\* the loop over the entries at positions lo..hi.  The body only adds to the
\* running totals, so the totals of a stretch are those of its two halves
\* added; halving keeps the recursion shallow on a ledger of 500 entries.
RECURSIVE computeExposures_loop(_, _, _, _)
computeExposures_loop(l, lo, hi, q) ==
  IF lo > hi THEN NoExposures
  ELSE IF lo = hi THEN computeExposures_body(NoExposures, l[lo], q)
  ELSE LET mid == (lo + hi) \div 2
       IN  plus(computeExposures_loop(l, lo, mid, q), computeExposures_loop(l, mid + 1, hi, q))

\* t is the value of "new Date()" read by the call
computeExposures(l, group1_id, group2_id, t) ==
  computeExposures_loop(l, 1, Len(l),
    [ dayStart |-> startOfLocalDay(t), weekStart |-> startOfISOWeekLocal(t),
      t7 |-> t - MS_7D, group1_id |-> group1_id, group2_id |-> group2_id ])

\* page.tsx 238-267 and 948-973: the same function under two more names
computeExposuresNow(l, group1_id, group2_id, t) == computeExposures(l, group1_id, group2_id, t)

computeExposures_page(l, group1_id, group2_id, t) == computeExposures(l, group1_id, group2_id, t)

\* page.tsx 640-667: the aggregation written inside the reduced page.  Its
\* entries carry group1 / group2, its week starts at
\* getDate() - getDay() + 1, and its seven days are now - e.ts <= 7 days.
exposures_basic_body(acc, e, q) ==
  LET a1 == IF e.ts >= q.todayStart
            THEN [acc EXCEPT !.daily_staked = @ + e.stake,
                             !.bets_today = @ + 1,
                             !.same_group1_staked =
                                IF e.group1 = q.group1 THEN @ + e.stake ELSE @]
            ELSE acc
      a2 == IF e.ts >= q.weekStart THEN [a1 EXCEPT !.weekly_staked = @ + e.stake] ELSE a1
  IN  IF e.group2 = q.group2 /\ q.now - e.ts <= 7 * 24 * 60 * 60 * 1000
      THEN [a2 EXCEPT !.same_group2_7d_staked = @ + e.stake]
      ELSE a2

RECURSIVE exposures_basic_loop(_, _, _, _)
exposures_basic_loop(l, lo, hi, q) ==
  IF lo > hi THEN NoExposures
  ELSE IF lo = hi THEN exposures_basic_body(NoExposures, l[lo], q)
  ELSE LET mid == (lo + hi) \div 2
       IN  plus(exposures_basic_loop(l, lo, mid, q), exposures_basic_loop(l, mid + 1, hi, q))

exposures_basic(l, group1, group2, t) ==
  exposures_basic_loop(l, 1, Len(l),
    [ now |-> t, todayStart |-> startOfLocalDay(t),
      weekStart |-> startOfLocalDay(t + (1 - getDay(t)) * MS_DAY),
      group1 |-> group1, group2 |-> group2 ])

(***************************************************************************)
(* Inputs of the aggregation: ledgers of a few entries stamped on the      *)
(* edges of the three windows of the clock reading, before and after it.   *)
(***************************************************************************)
MaxLedgerLen == 2

Pages == {"part_000", "page_fixed", "page_basic", "page_rules"}

\* Tuesday 10:00, Sunday 10:00 and Monday 00:00:00.000 of the third week
NowValues == { 15 * MS_DAY + 10 * MS_HOUR, 20 * MS_DAY + 10 * MS_HOUR, 14 * MS_DAY }

TsValues(t) ==
  { startOfLocalDay(t) - 1, startOfLocalDay(t), t, t + 1, startOfLocalDay(t) + MS_DAY,
    startOfISOWeekLocal(t) - 1, startOfISOWeekLocal(t), t - MS_7D - 1, t - MS_7D }

StakedValues ==
  { [stake |-> 2000, group1_id |-> "EVENT-1", group2_id |-> "TEAM-1"],
    [stake |-> 2500, group1_id |-> "EVENT-1", group2_id |-> "TEAM-2"],
    [stake |-> 3000, group1_id |-> "EVENT-2", group2_id |-> "TEAM-1"] }

\* a ledger entry as the addToLedger of the page writes it
LedgerEntry(p, id, ts, b, odds, d) ==
  IF p = "page_basic"
  THEN [ ts |-> ts, stake |-> b.stake, odds |-> odds, group1 |-> b.group1_id,
         group2 |-> b.group2_id, verdict |-> d.verdict ]
  ELSE IF p = "page_fixed"
  THEN [ id |-> id, ts |-> ts, category |-> "betting", stake |-> b.stake, odds |-> odds,
         group1_id |-> b.group1_id, group2_id |-> b.group2_id,
         verdict |-> d.verdict, reasons |-> d.reasons ]
  ELSE [ id |-> id, ts |-> ts, stake |-> b.stake, odds |-> odds,
         group1_id |-> b.group1_id, group2_id |-> b.group2_id,
         verdict |-> d.verdict, reasons |-> d.reasons ]

EntryValues(p, t) ==
  { LedgerEntry(p, 0, ts, b, Fin(-110, 1), [verdict |-> "ALLOW", reasons |-> <<>>]) :
      ts \in TsValues(t), b \in StakedValues }

\* ids are unique: the entry at position i has id i where the page keeps ids
LedgerValues(p, t) ==
  LET drawn == UNION { [1..n -> EntryValues(p, t)] : n \in 0..MaxLedgerLen }
  IN  { [i \in DOMAIN l |-> IF p = "page_basic" THEN l[i] ELSE [l[i] EXCEPT !.id = i]] :
          l \in drawn }

QuietBehavior ==
  [ stake_velocity_spike |-> FALSE, frequency_spike |-> FALSE, consecutive_overrides |-> 0,
    cooldown_violations |-> 0, cooldown_active |-> FALSE ]

(***************************************************************************)
(* State machine of the aggregation: a ledger, a clock reading and the     *)
(* queried group ids are fixed at the start; the aggregation of the page   *)
(* is applied to them.                                                     *)
(***************************************************************************)
InitAgg ==
  /\ page \in Pages
  /\ now \in NowValues
  /\ ledger \in LedgerValues(page, now)
  /\ ui = [stake |-> 2000, odds |-> Fin(-110, 1), group1 |-> "EVENT-1", group2 |-> "TEAM-1"]
  /\ phase = "ledger"
  /\ exp = NoExposures
  /\ bankroll = 100000
  /\ rules = DEFAULT_RULES
  /\ bet = [stake |-> 2000, odds |-> Fin(-110, 1), group1_id |-> "EVENT-1", group2_id |-> "TEAM-1"]
  /\ beh = QuietBehavior
  /\ engine = "none"
  /\ decision = NoDecision
  /\ store = [ledger |-> [k |-> "absent"], rules |-> [k |-> "absent"]]
  /\ nAdded = 0

Call_computeExposures ==
  /\ page = "part_000"
  /\ phase = "ledger"
  /\ phase' = "exposures"
  /\ exp' = computeExposures(ledger, ui.group1, ui.group2, now)
  /\ UNCHANGED <<bankroll, rules, bet, beh, engine, decision, page, ledger, ui, store, now, nAdded>>

Call_computeExposuresNow ==
  /\ page = "page_fixed"
  /\ phase = "ledger"
  /\ phase' = "exposures"
  /\ exp' = computeExposuresNow(ledger, ui.group1, ui.group2, now)
  /\ UNCHANGED <<bankroll, rules, bet, beh, engine, decision, page, ledger, ui, store, now, nAdded>>

Call_computeExposures_page ==
  /\ page = "page_rules"
  /\ phase = "ledger"
  /\ phase' = "exposures"
  /\ exp' = computeExposures_page(ledger, ui.group1, ui.group2, now)
  /\ UNCHANGED <<bankroll, rules, bet, beh, engine, decision, page, ledger, ui, store, now, nAdded>>

Call_exposures_basic ==
  /\ page = "page_basic"
  /\ phase = "ledger"
  /\ phase' = "exposures"
  /\ exp' = exposures_basic(ledger, ui.group1, ui.group2, now)
  /\ UNCHANGED <<bankroll, rules, bet, beh, engine, decision, page, ledger, ui, store, now, nAdded>>

NextAgg ==
  \/ Call_computeExposures
  \/ Call_computeExposuresNow
  \/ Call_computeExposures_page
  \/ Call_exposures_basic

SpecAgg == InitAgg /\ [][NextAgg]_vars

(***************************************************************************)
(* localStorage.  An item is absent (getItem returns null), a text that    *)
(* JSON.parse rejects, or the JSON text of a value; a JSON value is an     *)
(* array, an object (a function from its keys) or null.                    *)
(***************************************************************************)
Absent == [k |-> "absent"]

Unparsable == [k |-> "text"]

Json(v) == [k |-> "json", v |-> v]

JsonArray(items) == [t |-> "array", items |-> items]

JsonObject(fields) == [t |-> "object", fields |-> fields]

JsonNull == [t |-> "null"]

RuleFields == DOMAIN DEFAULT_RULES

\* JSON.stringify of a number: a non-finite number is written as null
stringifyNumber(n) == IF NumberIsFinite(n) THEN n ELSE [k |-> "null"]

\* JSON.stringify(entries)
stringifyLedger(entries) ==
  Json(JsonArray([i \in DOMAIN entries |->
                    [entries[i] EXCEPT !.odds = stringifyNumber(entries[i].odds)]]))

\* JSON.stringify(rules)
stringifyRules(r) == Json(JsonObject(r))

\* loadLedger (also page.tsx 205-215 and 909-918)
loadLedger(item) ==
  IF item.k = "absent" THEN <<>>
  ELSE IF item.k = "text" THEN <<>>
  ELSE IF item.v.t = "array" THEN item.v.items ELSE <<>>

\* { ...DEFAULT_RULES, ...parsed }
spreadOverDefaults(parsed) ==
  IF parsed.t = "object"
  THEN [f \in RuleFields |-> IF f \in DOMAIN parsed.fields THEN parsed.fields[f]
                                                         ELSE DEFAULT_RULES[f]]
  ELSE DEFAULT_RULES

\* loadRules (also page.tsx 922-931)
loadRules(item) ==
  IF item.k = "absent" THEN DEFAULT_RULES
  ELSE IF item.k = "text" THEN DEFAULT_RULES
  ELSE spreadOverDefaults(item.v)

\* page.tsx 631-634: "if (stored) setRules(JSON.parse(stored))", outside any
\* try.  The result is the next rules state, or a throw: of JSON.parse on an
\* unparsable text, or of the render that reads rules.unit_pct of null.
loadRules_basic(item) ==
  IF item.k = "absent" THEN [threw |-> "nothing", rules |-> DEFAULT_RULES]
  ELSE IF item.k = "text" THEN [threw |-> "in the effect", rules |-> DEFAULT_RULES]
  ELSE IF item.v.t = "object" THEN [threw |-> "nothing", rules |-> item.v.fields]
  ELSE [threw |-> "in the render", rules |-> [f \in {} |-> 0]]

(***************************************************************************)
(* One render of a page: the proposed bet built from the form fields, the  *)
(* aggregation and the engine of that copy.                                *)
(***************************************************************************)
\* String.prototype.trim on the group ids of the form
trim(str) ==
  IF str \in {" EVENT-1", "EVENT-1 ", " EVENT-1 "} THEN "EVENT-1"
  ELSE IF str \in {" TEAM-1", "TEAM-1 ", " TEAM-1 "} THEN "TEAM-1"
  ELSE IF str \in {" ", "  "} THEN ""
  ELSE str

\* the bet of the decision memo; the reduced page passes the fields as typed
proposedBet(p, form) ==
  IF p = "page_basic"
  THEN [stake |-> form.stake, odds |-> form.odds, group1_id |-> form.group1,
        group2_id |-> form.group2]
  ELSE [stake |-> form.stake, odds |-> form.odds, group1_id |-> trim(form.group1),
        group2_id |-> trim(form.group2)]

\* the exposures memo, recomputed with the clock reading t
exposuresOf(p, l, form, t) ==
  IF p = "part_000" THEN computeExposures(l, form.group1, form.group2, t)
  ELSE IF p = "page_fixed" THEN computeExposuresNow(l, form.group1, form.group2, t)
  ELSE IF p = "page_rules" THEN computeExposures_page(l, form.group1, form.group2, t)
  ELSE exposures_basic(l, form.group1, form.group2, t)

\* A rule field that the stored object lacked is undefined: the cap computed
\* from it is NaN and every comparison with it is false, as with a limit
\* that no amount of the model reaches.
NoLimit == 20000

undefinedAsNaN(r) == [f \in RuleFields |-> IF f \in DOMAIN r THEN r[f] ELSE NoLimit]

decisionOf(p, B, r, form, e, h) ==
  IF p = "part_000" THEN evaluate_v1(B, r, proposedBet(p, form), e, h)
  ELSE IF p = "page_fixed" THEN evaluate_v1_fixed(B, proposedBet(p, form), e, h)
  ELSE IF p = "page_rules" THEN evaluate_v1_rules(B, r, proposedBet(p, form), e, h)
  ELSE evaluate_v1_basic(B, undefinedAsNaN(r), proposedBet(p, form), e, QuietBehavior)

\* Array.prototype.slice(0, n)
slice(l, n) == SubSeq(l, 1, IF Len(l) < n THEN Len(l) ELSE n)

\* the next ledger with the spread and the entry exchanged:
\* [...ledger, entry].slice(0, 500)
prepend_appended(entry, l) == slice(l \o <<entry>>, 500)

\* addToLedger: the next ledger, [entry, ...ledger].slice(0, 500)
prepend(entry, l) == slice(<<entry>> \o l, 500)

\* page.tsx 692: [entry, ...ledger], without slice
prepend_basic(entry, l) == <<entry>> \o l

(***************************************************************************)
(* Inputs of a page session: what localStorage holds when the page opens,  *)
(* the form fields, the clock.                                             *)
(***************************************************************************)
MaxAdds == 2

MaxTicks == 1

\* Tuesday 10:00 of the third week
StartNow == 15 * MS_DAY + 10 * MS_HOUR

FormStakeValues == {2000, 2500}

\* texts typed into the Group1 ID field: an id, and the same id between blanks
FormGroup1Values == {"EVENT-1", " EVENT-1 "}

\* n entries written on the Monday before, most recent first
StoredEntries(p, n) ==
  [ i \in 1..n |->
      LedgerEntry(p, 0 - i, 14 * MS_DAY + MS_HOUR - i,
                  [stake |-> 100, group1_id |-> "EVENT-1", group2_id |-> "TEAM-1"],
                  Fin(-110, 1), [verdict |-> "ALLOW", reasons |-> <<>>]) ]

LedgerItems(p) ==
  IF p = "page_basic" THEN {Absent}
  ELSE { Absent, Unparsable, Json(JsonNull), Json(JsonArray(StoredEntries(p, 499))),
         Json(JsonArray(StoredEntries(p, 500))) }

RuleItems(p) ==
  IF p = "page_fixed" THEN {Absent}
  ELSE { Absent, Unparsable, Json(JsonNull), Json(JsonObject([unit_pct |-> 3])),
         Json(JsonObject(ALT_RULES)) }

StoreValues(p) == [ledger : LedgerItems(p), rules : RuleItems(p)]

\* useState defaults of the form
DefaultForm(p) ==
  IF p = "part_000"
  THEN [stake |-> 2000, odds |-> Fin(-110, 1), group1 |-> "EVENT-1", group2 |-> "TEAM-1"]
  ELSE IF p = "page_basic"
  THEN [stake |-> 2500, odds |-> Fin(-110, 1), group1 |-> "GROUP1", group2 |-> "GROUP2"]
  ELSE [stake |-> 2500, odds |-> Fin(-110, 1), group1 |-> "EVENT-1", group2 |-> "TEAM-1"]

(***************************************************************************)
(* State machine of a page session.  A page opens with the useState        *)
(* defaults (first render), runs its mount effects, and then handles       *)
(* clicks and edits; every handler ends with the render it causes.  The    *)
(* reduced page never loads a ledger: its long ledgers come from a long    *)
(* session, which the second disjunct of the initial states stands for     *)
(* (the page mounted on empty storage, addToLedger run 499 or 500 times).  *)
(***************************************************************************)
FirstRender ==
  /\ page \in Pages
  /\ store \in StoreValues(page)
  /\ phase = "rendered"
  /\ ledger = <<>>

LongSession ==
  /\ page = "page_basic"
  /\ store = [ledger |-> Absent, rules |-> stringifyRules(DEFAULT_RULES)]
  /\ phase = "mounted"
  /\ ledger \in {StoredEntries(page, 499), StoredEntries(page, 500)}

InitPage ==
  /\ FirstRender \/ LongSession
  /\ rules = DEFAULT_RULES
  /\ bankroll = 100000
  /\ beh = QuietBehavior
  /\ ui = DefaultForm(page)
  /\ now = StartNow
  /\ nAdded = 0
  /\ engine = page
  /\ bet = proposedBet(page, ui)
  /\ exp = exposuresOf(page, ledger, ui, now)
  /\ decision = decisionOf(page, bankroll, rules, ui, exp, beh)

\* the render that follows a state change: e is the value of the exposures memo
Render(e) ==
  /\ bet' = proposedBet(page, ui')
  /\ exp' = e
  /\ decision' = decisionOf(page, bankroll, rules', ui', e, beh)

\* the effects with an empty dependency list, and the saveRules effect that
\* runs with them and again after setRules
Mount ==
  /\ phase = "rendered"
  /\ UNCHANGED <<bankroll, beh, engine, page, ui, now, nAdded>>
  /\ IF page = "page_basic"
     THEN LET res == loadRules_basic(store.rules)
          IN  /\ ledger' = ledger
              /\ rules' = res.rules
              /\ IF res.threw = "nothing"
                 THEN /\ phase' = "mounted"
                      /\ store' = [store EXCEPT !.rules = stringifyRules(res.rules)]
                      /\ Render(exp)
                 ELSE /\ phase' = "crashed"
                      /\ IF res.threw = "in the render"
                         THEN store' = [store EXCEPT !.rules = stringifyRules(DEFAULT_RULES)]
                         ELSE store' \in {store, [store EXCEPT !.rules = stringifyRules(DEFAULT_RULES)]}
                      /\ UNCHANGED <<bet, exp, decision>>
     ELSE /\ phase' = "mounted"
          /\ ledger' = loadLedger(store.ledger)
          /\ IF page = "page_fixed"
             THEN UNCHANGED <<rules, store>>
             ELSE /\ rules' = loadRules(store.rules)
                  /\ store' = [store EXCEPT !.rules = stringifyRules(rules')]
          /\ Render(exposuresOf(page, ledger', ui, now))

AddToLedger ==
  /\ phase = "mounted"
  /\ nAdded < MaxAdds
  /\ LET entry == LedgerEntry(page, nAdded + 1, now, proposedBet(page, ui), ui.odds, decision)
         next  == IF page = "page_basic" THEN prepend_basic(entry, ledger)
                                         ELSE prepend(entry, ledger)
     IN  /\ ledger' = next
         /\ store' = IF page = "page_basic" THEN store
                     ELSE [store EXCEPT !.ledger = stringifyLedger(next)]
  /\ nAdded' = nAdded + 1
  /\ UNCHANGED <<bankroll, rules, beh, engine, page, phase, ui, now>>
  /\ Render(exposuresOf(page, ledger', ui, now))

ResetLedger ==
  /\ phase = "mounted"
  /\ page # "page_basic"
  /\ ledger' = <<>>
  /\ store' = [store EXCEPT !.ledger = stringifyLedger(<<>>)]
  /\ UNCHANGED <<bankroll, rules, beh, engine, page, phase, ui, now, nAdded>>
  /\ Render(exposuresOf(page, ledger', ui, now))

\* onChange of the stake field: the decision is evaluated again on the
\* memoised exposures
SetStake ==
  /\ phase = "mounted"
  /\ \E v \in FormStakeValues \ {ui.stake} : ui' = [ui EXCEPT !.stake = v]
  /\ UNCHANGED <<bankroll, rules, beh, engine, page, phase, ledger, store, now, nAdded>>
  /\ Render(exp)

\* onChange of the Group1 ID field: the exposures memo is recomputed for the
\* text as typed and the decision is evaluated again
SetGroup1 ==
  /\ phase = "mounted"
  /\ \E v \in FormGroup1Values \ {ui.group1} : ui' = [ui EXCEPT !.group1 = v]
  /\ UNCHANGED <<bankroll, rules, beh, engine, page, phase, ledger, store, now, nAdded>>
  /\ Render(exposuresOf(page, ledger, ui', now))

\* the wall clock advances; nothing is rendered
Tick ==
  /\ now < StartNow + MaxTicks * MS_HOUR
  /\ now' = now + MS_HOUR
  /\ UNCHANGED <<bankroll, rules, bet, exp, beh, engine, decision, page, phase, ledger, ui,
                 store, nAdded>>

NextPage ==
  \/ Mount
  \/ AddToLedger
  \/ ResetLedger
  \/ SetStake
  \/ Tick

SpecPage == InitPage /\ [][NextPage]_vars

(***************************************************************************)
(* State machine of an editing session that lasts into the next days: the  *)
(* two pages that trim the ids, opened on a stored ledger or on none, with *)
(* the id field edited and the clock passing local midnight between two    *)
(* events.                                                                 *)
(***************************************************************************)
SessionPages == {"part_000", "page_rules"}

SessionStores(p) ==
  [ ledger : { Absent, Json(JsonArray(StoredEntries(p, 499))),
               Json(JsonArray(StoredEntries(p, 500))) },
    rules : {Absent} ]

InitSession ==
  /\ page \in SessionPages
  /\ store \in SessionStores(page)
  /\ phase = "rendered"
  /\ ledger = <<>>
  /\ rules = DEFAULT_RULES
  /\ bankroll = 100000
  /\ beh = QuietBehavior
  /\ ui = DefaultForm(page)
  /\ now = StartNow
  /\ nAdded = 0
  /\ engine = page
  /\ bet = proposedBet(page, ui)
  /\ exp = exposuresOf(page, ledger, ui, now)
  /\ decision = decisionOf(page, bankroll, rules, ui, exp, beh)

\* the wall clock advances by a day, past the next local midnight; nothing is
\* rendered
TickDay ==
  /\ now < StartNow + MaxTicks * MS_DAY
  /\ now' = now + MS_DAY
  /\ UNCHANGED <<bankroll, rules, bet, exp, beh, engine, decision, page, phase, ledger, ui,
                 store, nAdded>>

NextSession ==
  \/ Mount
  \/ AddToLedger
  \/ ResetLedger
  \/ SetStake
  \/ SetGroup1
  \/ TickDay

SpecSession == InitSession /\ [][NextSession]_vars

(***************************************************************************)
(* Vocabulary of the properties.  It is written from the contract, not     *)
(* from the engine's operators: codes are spelled out, tiers are ordered   *)
(* by position, and v and g are counted in the reasons the engine          *)
(* returned.                                                               *)
(***************************************************************************)
Evaluated == engine # "none"

\* the copies with the full rule set of Steps 0-8
FullEngines == {"part_000", "page_rules", "page_fixed"}

\* the copies that take the rules as an argument and implement Steps 0-8
RuleEngines == {"part_000", "page_rules"}

TierOrder == <<"ALLOW", "WARN", "HARD_WARN", "RED_ALERT">>

Tier(v) == CHOOSE i \in 1..4 : TierOrder[i] = v

GateCode == "HIGH_RISK_ODDS_GATE"

FlagCodes ==
  { "STAKE_VELOCITY_SPIKE", "FREQUENCY_SPIKE", "CONSECUTIVE_OVERRIDES_HIGH",
    "COOLDOWN_VIOLATION_HISTORY" }

Has(code) == \E i \in DOMAIN decision.reasons : decision.reasons[i] = code

Count(code) == Cardinality({i \in DOMAIN decision.reasons : decision.reasons[i] = code})

\* g: the gate codes returned; v: the cap-violation codes returned (whatever is
\* neither the gate code, a flag code nor COOLDOWN_ACTIVE)
GatesReturned == Count(GateCode)

ViolationsReturned ==
  Cardinality({ i \in DOMAIN decision.reasons :
                  decision.reasons[i] \notin (FlagCodes \cup {GateCode, "COOLDOWN_ACTIVE"}) })

\* Step 6
StepSixVerdict(v, g) ==
  IF v >= 2 THEN "HARD_WARN" ELSE IF v = 1 THEN "WARN" ELSE IF g > 0 THEN "WARN" ELSE "ALLOW"

Spike == beh.stake_velocity_spike \/ beh.frequency_spike

\* Step 4: odds that are not a finite non-zero integer
OddsInvalid ==
  \/ bet.odds.k # "fin"
  \/ bet.odds.num % bet.odds.den # 0
  \/ bet.odds.num = 0

GateFires == OddsInvalid \/ (bet.odds.k = "inf") \/ (bet.odds.k = "fin" /\ bet.odds.num >= rules.odds_gate * bet.odds.den)

\* Step 3 under the supplied rules: the six checks in their fixed order
CapChecks ==
  << [code |-> "UNIT_SIZE_CAP_EXCEEDED",
      over |-> 100 * bet.stake > bankroll * rules.unit_pct,
      at   |-> 100 * bet.stake = bankroll * rules.unit_pct],
     [code |-> "DAILY_EXPOSURE_CAP_EXCEEDED",
      over |-> 100 * (exp.daily_staked + bet.stake) > bankroll * rules.daily_pct,
      at   |-> 100 * (exp.daily_staked + bet.stake) = bankroll * rules.daily_pct],
     [code |-> "WEEKLY_EXPOSURE_CAP_EXCEEDED",
      over |-> 100 * (exp.weekly_staked + bet.stake) > bankroll * rules.weekly_pct,
      at   |-> 100 * (exp.weekly_staked + bet.stake) = bankroll * rules.weekly_pct],
     [code |-> "SAME_EVENT_CONCENTRATION_CAP_EXCEEDED",
      over |-> 100 * (exp.same_group1_staked + bet.stake) > bankroll * rules.group1_pct,
      at   |-> 100 * (exp.same_group1_staked + bet.stake) = bankroll * rules.group1_pct],
     [code |-> "SAME_TEAM_7D_CONCENTRATION_CAP_EXCEEDED",
      over |-> 100 * (exp.same_group2_7d_staked + bet.stake) > bankroll * rules.group2_pct,
      at   |-> 100 * (exp.same_group2_7d_staked + bet.stake) = bankroll * rules.group2_pct],
     [code |-> "ACTION_FREQUENCY_CAP_EXCEEDED",
      over |-> exp.bets_today + 1 > rules.freq_cap,
      at   |-> exp.bets_today + 1 = rules.freq_cap] >>

GateChecks == << [code |-> GateCode, over |-> GateFires, at |-> FALSE] >>

FlagChecks ==
  << [code |-> "STAKE_VELOCITY_SPIKE", over |-> beh.stake_velocity_spike, at |-> FALSE],
     [code |-> "FREQUENCY_SPIKE", over |-> beh.frequency_spike, at |-> FALSE],
     [code |-> "CONSECUTIVE_OVERRIDES_HIGH", over |-> beh.consecutive_overrides >= 2, at |-> FALSE],
     [code |-> "COOLDOWN_VIOLATION_HISTORY", over |-> beh.cooldown_violations >= 1, at |-> FALSE] >>

\* the codes of the checks that hold, in the order of the checks
Triggered(checks) ==
  LET hit == SelectSeq(checks, LAMBDA c : c.over)
  IN  [i \in 1..Len(hit) |-> hit[i].code]

ExpectedReasons == Triggered(CapChecks \o GateChecks \o FlagChecks)

ScenarioA(stake) ==
  /\ bankroll = 100000
  /\ rules = [ unit_pct |-> 2, daily_pct |-> 6, weekly_pct |-> 20, group1_pct |-> 4,
               group2_pct |-> 8, freq_cap |-> 5, odds_gate |-> 250 ]
  /\ bet.stake = stake
  /\ bet.odds = Fin(-110, 1)
  /\ exp = [ daily_staked |-> 0, weekly_staked |-> 0, same_group1_staked |-> 0,
             same_group2_7d_staked |-> 0, bets_today |-> 0 ]
  /\ beh = [ stake_velocity_spike |-> FALSE, frequency_spike |-> FALSE,
             consecutive_overrides |-> 0, cooldown_violations |-> 0,
             cooldown_active |-> FALSE ]

(***************************************************************************)
(* C1  Cooldown absolute priority.                                         *)
(***************************************************************************)
\* C1: whenever cooldown_active is true the result is exactly RED_ALERT with
\* reasons [COOLDOWN_ACTIVE], friction_required and cooldown_triggered true,
\* whatever the capital, rules, bet, exposures and other behavioural fields.
C1_CooldownAbsolutePriority ==
  (engine \in FullEngines /\ beh.cooldown_active) =>
    decision = [ verdict |-> "RED_ALERT", reasons |-> <<"COOLDOWN_ACTIVE">>,
                 friction_required |-> TRUE, cooldown_triggered |-> TRUE ]

\* a cooldown evaluation whose other inputs would, on their own, breach the
\* weekly cap, fire the gate and raise every flag
C1_Witness ==
  /\ engine = "part_000"
  /\ beh.cooldown_active
  /\ CapChecks[3].over /\ GateFires /\ Spike
  /\ beh.consecutive_overrides >= 3 /\ beh.cooldown_violations >= 1
  /\ decision.reasons = <<"COOLDOWN_ACTIVE">>

(***************************************************************************)
(* C2  Reason ordering.                                                    *)
(***************************************************************************)
\* C2: with cooldown_active false, the reasons are exactly the triggered cap
\* violations in check order, then HIGH_RISK_ODDS_GATE if the gate fired, then
\* the triggered flags in check order; a code is present iff its check holds.
\* Stated for the two engines the claim cites (part_000 and page.tsx 566-620).
C2_ReasonOrdering ==
  (engine \in {"part_000", "page_basic"} /\ ~beh.cooldown_active) =>
    decision.reasons = ExpectedReasons

\* C2 restricted to the rule-parameterised full engines, where it holds.
C2_ReasonOrdering_FullEngines ==
  (engine \in RuleEngines /\ ~beh.cooldown_active) => decision.reasons = ExpectedReasons

(***************************************************************************)
(* C3  Scenario A.                                                         *)
(***************************************************************************)
\* C3 as written: capital 1000, default rules, stake 25, odds -110, empty
\* exposures, no flags gives ALLOW and no reasons.
C3_ScenarioA_AsWritten ==
  (engine \in RuleEngines /\ ScenarioA(2500)) =>
    (decision.verdict = "ALLOW" /\ decision.reasons = <<>>)

\* C3 amended: with stake 25 the scenario gives WARN and
\* [UNIT_SIZE_CAP_EXCEEDED] (25 > unit_cap 20); ALLOW with no reasons is the
\* result for stake 20.
C3_ScenarioA_Amended ==
  /\ (engine \in RuleEngines /\ ScenarioA(2500)) =>
       /\ decision.verdict = "WARN"
       /\ decision.reasons = <<"UNIT_SIZE_CAP_EXCEEDED">>
       /\ decision.friction_required
       /\ ~decision.cooldown_triggered
  /\ (engine \in RuleEngines /\ ScenarioA(2000)) =>
       /\ decision.verdict = "ALLOW"
       /\ decision.reasons = <<>>
       /\ ~decision.friction_required

C3_Witness ==
  /\ engine = "part_000"
  /\ ScenarioA(2500)
  /\ decision.verdict = "WARN"

(***************************************************************************)
(* C4  Monotonic strictness.                                               *)
(***************************************************************************)
\* C4: each of the six cap comparisons is strict: a value exactly at its cap
\* never yields the code, a value above it always does; capital 1000 with
\* unit_pct 2 gives no UNIT_SIZE_CAP_EXCEEDED at stake 20 and gives it at 20.01.
C4_MonotonicStrictness ==
  (engine \in RuleEngines /\ ~beh.cooldown_active) =>
    /\ LET checks == CapChecks
       IN  \A i \in 1..6 :
             /\ checks[i].at => ~Has(checks[i].code)
             /\ checks[i].over => Has(checks[i].code)
    /\ (bankroll = 100000 /\ rules.unit_pct = 2 /\ bet.stake = 2000)
         => ~Has("UNIT_SIZE_CAP_EXCEEDED")
    /\ (bankroll = 100000 /\ rules.unit_pct = 2 /\ bet.stake = 2001)
         => Has("UNIT_SIZE_CAP_EXCEEDED")

\* all six projected values sit exactly on their caps and no violation is returned
C4_Witness ==
  /\ engine = "part_000"
  /\ ~beh.cooldown_active
  /\ \A i \in 1..6 : CapChecks[i].at
  /\ ViolationsReturned = 0

(***************************************************************************)
(* C5  Verdict monotonicity under amplification.                           *)
(***************************************************************************)
\* C5: with cooldown_active false, the final verdict's tier is never below the
\* tier of the Step 6 base verdict for the returned violation and gate counts.
C5_VerdictMonotonicity ==
  (engine \in FullEngines /\ ~beh.cooldown_active) =>
    Tier(decision.verdict) >= Tier(StepSixVerdict(ViolationsReturned, GatesReturned))

\* one violation and a spike: Step 7.4 has raised the base WARN to HARD_WARN
C5_Witness ==
  /\ engine = "part_000"
  /\ ~beh.cooldown_active
  /\ ViolationsReturned = 1 /\ Spike
  /\ beh.consecutive_overrides < 3 /\ beh.cooldown_violations = 0
  /\ decision.verdict = "HARD_WARN"

(***************************************************************************)
(* C6  Base verdict mapping.                                               *)
(***************************************************************************)
NoAmplification ==
  /\ ~Has("WEEKLY_EXPOSURE_CAP_EXCEEDED")
  /\ beh.consecutive_overrides < 3
  /\ ~(beh.cooldown_violations >= 1 /\ ViolationsReturned >= 1)
  /\ ~(ViolationsReturned >= 1 /\ Spike)
  /\ ~(GatesReturned >= 1 /\ Spike)

\* C6: when no amplification rule applies, the verdict is ALLOW for v = 0, g = 0,
\* WARN for v = 0, g > 0, WARN for v = 1 and HARD_WARN for v >= 2, in every
\* evaluate_v1 of the repository.
C6_BaseVerdictMapping ==
  (Evaluated /\ ~beh.cooldown_active /\ NoAmplification) =>
    decision.verdict = StepSixVerdict(ViolationsReturned, GatesReturned)

\* C6 restricted to the three full engines, where it holds.
C6_BaseVerdictMapping_FullEngines ==
  (engine \in FullEngines /\ ~beh.cooldown_active /\ NoAmplification) =>
    decision.verdict = StepSixVerdict(ViolationsReturned, GatesReturned)

(***************************************************************************)
(* C7  Odds gate.                                                          *)
(***************************************************************************)
\* C7: with cooldown_active false, HIGH_RISK_ODDS_GATE is in the reasons, exactly
\* once, iff the odds are invalid (non-finite, non-integer or zero) or
\* odds >= rules.odds_gate.  Stated for the engines the claim cites and the
\* page copy of the first.
C7_OddsGate ==
  (engine \in {"part_000", "page_rules", "page_basic"} /\ ~beh.cooldown_active) =>
    GatesReturned = (IF GateFires THEN 1 ELSE 0)

\* C7 restricted to the rule-parameterised full engines, where it holds.
C7_OddsGate_FullEngines ==
  (engine \in RuleEngines /\ ~beh.cooldown_active) =>
    GatesReturned = (IF GateFires THEN 1 ELSE 0)

(***************************************************************************)
(* C8  A weekly breach forces RED_ALERT.                                   *)
(***************************************************************************)
\* C8: with cooldown_active false, weekly_staked + stake > capital * weekly_pct / 100
\* gives RED_ALERT whatever other violations, gates or flags are present.
C8_WeeklyBreachRedAlert ==
  (engine \in RuleEngines /\ ~beh.cooldown_active
     /\ 100 * (exp.weekly_staked + bet.stake) > bankroll * rules.weekly_pct) =>
    decision.verdict = "RED_ALERT"

\* the weekly breach is the only violation; no gate, no flag
C8_Witness ==
  /\ engine = "part_000"
  /\ ~beh.cooldown_active
  /\ decision.reasons = <<"WEEKLY_EXPOSURE_CAP_EXCEEDED">>
  /\ decision.verdict = "RED_ALERT"

(***************************************************************************)
(* C9  Override history forces RED_ALERT.                                  *)
(***************************************************************************)
\* C9: with cooldown_active false and consecutive_overrides >= 3 the verdict is
\* RED_ALERT, also with no violation and no gate.
C9_OverridesRedAlert ==
  (engine \in FullEngines /\ ~beh.cooldown_active /\ beh.consecutive_overrides >= 3) =>
    decision.verdict = "RED_ALERT"

\* three overrides, v = 0 and g = 0: the base mapping alone would give ALLOW
C9_Witness ==
  /\ engine = "part_000"
  /\ ~beh.cooldown_active
  /\ beh.consecutive_overrides = 3
  /\ decision.reasons = <<"CONSECUTIVE_OVERRIDES_HIGH">>
  /\ decision.verdict = "RED_ALERT"

(***************************************************************************)
(* C10  Derived booleans.                                                  *)
(***************************************************************************)
DerivedBooleans ==
  /\ "friction_required" \in DOMAIN decision
  /\ "cooldown_triggered" \in DOMAIN decision
  /\ decision.friction_required = (decision.verdict # "ALLOW")
  /\ decision.cooldown_triggered = (decision.verdict = "RED_ALERT")

\* C10: every DecisionResult, on the cooldown path and on the normal path, has
\* friction_required = (verdict # ALLOW) and cooldown_triggered =
\* (verdict = RED_ALERT), in every evaluate_v1 of the repository.
C10_DerivedBooleans == Evaluated => DerivedBooleans

\* C10 restricted to the three full engines, where it holds.
C10_DerivedBooleans_FullEngines == engine \in FullEngines => DerivedBooleans

(***************************************************************************)
(* C11  No duplicate reasons.                                              *)
(***************************************************************************)
\* C11: in the reasons of every DecisionResult each reason code appears at
\* most once.
C11_NoDuplicateReasons ==
  Evaluated =>
    \A i, j \in DOMAIN decision.reasons :
      decision.reasons[i] = decision.reasons[j] => i = j

\* every check of the normal path fired at once: six violations, the gate and
\* the four flags
C11_Witness ==
  /\ engine = "part_000"
  /\ ~beh.cooldown_active
  /\ Len(decision.reasons) = 11

(***************************************************************************)
(* C17  Threshold derivation and violation checks.                         *)
(***************************************************************************)
ViolationsFollowRules ==
  LET checks == CapChecks
  IN  /\ \A i \in 1..Len(checks) : Has(checks[i].code) <=> checks[i].over
      /\ ScenarioA(2500) =>
            (decision.reasons = <<"UNIT_SIZE_CAP_EXCEEDED">> /\ decision.verdict = "WARN")

\* C17: with cooldown_active false each of the six violation codes is present
\* iff its own condition holds under the caps derived from the supplied rules
\* (capital * pct / 100 and freq_cap), every check on its own; capital 1000,
\* defaults, stake 25 and empty exposures give [UNIT_SIZE_CAP_EXCEEDED] and WARN.
C17_ThresholdDerivation ==
  (engine \in {"part_000", "page_fixed"} /\ ~beh.cooldown_active) => ViolationsFollowRules

\* C17 restricted to the engines that take the rules as an argument, where it
\* holds.
C17_ThresholdDerivation_RuleEngines ==
  (engine \in RuleEngines /\ ~beh.cooldown_active) => ViolationsFollowRules

(***************************************************************************)
(* C18  One-tier escalation (Step 7.4).                                    *)
(***************************************************************************)
\* Step 6 followed by Steps 7.1-7.3, from the reasons returned
StepSevenThree ==
  IF \/ Has("WEEKLY_EXPOSURE_CAP_EXCEEDED")
     \/ beh.consecutive_overrides >= 3
     \/ (beh.cooldown_violations >= 1 /\ ViolationsReturned >= 1)
  THEN "RED_ALERT"
  ELSE StepSixVerdict(ViolationsReturned, GatesReturned)

OneTierAbove(v) == TierOrder[IF Tier(v) = 4 THEN 4 ELSE Tier(v) + 1]

\* C18: with cooldown_active false, at least one violation and a spike, the
\* final verdict is exactly one tier above the verdict of the base mapping
\* followed by rules 1-3 (RED_ALERT stays), gate or no gate; a single
\* non-weekly violation with consecutive_overrides < 3 and no cooldown
\* violation gives HARD_WARN.
C18_OneTierEscalation ==
  (engine \in FullEngines /\ ~beh.cooldown_active /\ ViolationsReturned >= 1 /\ Spike) =>
    /\ decision.verdict = OneTierAbove(StepSevenThree)
    /\ ( /\ ViolationsReturned = 1
         /\ ~Has("WEEKLY_EXPOSURE_CAP_EXCEEDED")
         /\ beh.consecutive_overrides < 3
         /\ beh.cooldown_violations = 0 ) => decision.verdict = "HARD_WARN"

\* Scenario C with the gate fired as well: Step 7.5 applies and changes nothing
C18_Witness ==
  /\ engine = "part_000"
  /\ ~beh.cooldown_active
  /\ beh.stake_velocity_spike
  /\ beh.consecutive_overrides < 3
  /\ beh.cooldown_violations = 0
  /\ decision.reasons[1] = "UNIT_SIZE_CAP_EXCEEDED"
  /\ ViolationsReturned = 1
  /\ Has(GateCode)
  /\ decision.verdict = "HARD_WARN"

(***************************************************************************)
(* C19  Gate with spike (Step 7.5).                                        *)
(***************************************************************************)
\* Steps 6 and 7.1-7.4, from the reasons returned
StepSevenFour ==
  IF ViolationsReturned >= 1 /\ Spike THEN OneTierAbove(StepSevenThree) ELSE StepSevenThree

\* C19: with cooldown_active false, HIGH_RISK_ODDS_GATE fired and a spike, the
\* final verdict is at least HARD_WARN; with no violation and
\* consecutive_overrides < 3 it is exactly HARD_WARN; a verdict that was
\* RED_ALERT before Step 7.5 stays RED_ALERT.
C19_GateWithSpike ==
  (engine \in FullEngines /\ ~beh.cooldown_active /\ Has(GateCode) /\ Spike) =>
    /\ Tier(decision.verdict) >= Tier("HARD_WARN")
    /\ (ViolationsReturned = 0 /\ beh.consecutive_overrides < 3) =>
          decision.verdict = "HARD_WARN"
    /\ StepSevenFour = "RED_ALERT" => decision.verdict = "RED_ALERT"

\* the gate and a frequency spike alone: WARN raised to the HARD_WARN floor
C19_Witness ==
  /\ engine = "part_000"
  /\ ~beh.cooldown_active
  /\ beh.frequency_spike
  /\ ~beh.stake_velocity_spike
  /\ beh.consecutive_overrides < 2
  /\ beh.cooldown_violations = 0
  /\ decision.reasons = <<GateCode, "FREQUENCY_SPIKE">>
  /\ decision.verdict = "HARD_WARN"

(***************************************************************************)
(* Vocabulary of the aggregation properties: the windows of the contract,  *)
(* as sets of positions of the ledger.                                     *)
(***************************************************************************)
Aggregated == phase = "exposures"

\* local midnight of the calendar date of now
LocalMidnight == MS_DAY * (now \div MS_DAY)

Group1Of(e) == IF "group1_id" \in DOMAIN e THEN e.group1_id ELSE e.group1

RECURSIVE StakeOver(_)
StakeOver(positions) ==
  IF positions = {} THEN 0
  ELSE LET i == CHOOSE j \in positions : TRUE
       IN  ledger[i].stake + StakeOver(positions \ {i})

\* the day window of the contract: local midnight (inclusive) through now
InDayWindow == { i \in DOMAIN ledger : LocalMidnight <= ledger[i].ts /\ ledger[i].ts <= now }

\* the entries stamped at or after local midnight, however late
SinceMidnight == { i \in DOMAIN ledger : LocalMidnight <= ledger[i].ts }

DayFigures(positions) ==
  /\ exp.daily_staked = StakeOver(positions)
  /\ exp.bets_today = Cardinality(positions)
  /\ exp.same_group1_staked =
       StakeOver({ i \in positions : Group1Of(ledger[i]) = ui.group1 })

(***************************************************************************)
(* C20  Day window.                                                        *)
(***************************************************************************)
\* C20: for every ledger and every now, daily_staked is the sum of stake over
\* exactly the entries stamped from local midnight of now's date (inclusive)
\* through now, bets_today is their number and same_group1_staked the sum over
\* those of them whose group1 id equals the queried one; an entry outside the
\* window, one stamped later than now included, contributes to none.
C20_DayWindow ==
  (Aggregated /\ page \in {"part_000", "page_basic"}) => DayFigures(InDayWindow)

\* What the aggregation computes: the three figures over every entry stamped
\* at or after local midnight, entries stamped after now included.
C20_DayWindow_SinceMidnight ==
  (Aggregated /\ page \in {"part_000", "page_basic"}) => DayFigures(SinceMidnight)

(***************************************************************************)
(* Vocabulary of the page properties.                                      *)
(***************************************************************************)
\* the steps of a session, told apart by what they change
MountStep == phase = "rendered" /\ phase' # "rendered"

AddStep == nAdded' = nAdded + 1

EvaluationStep == ui' # ui

\* the number of entries of the persisted ledger
PersistedLength(item) ==
  IF item.k = "json" /\ item.v.t = "array" THEN Len(item.v.items) ELSE 0

\* the entry at the head is the one just added: stamped now, with the stake of
\* the form, and (where entries have ids) an id no older entry has
HeadIsNew ==
  /\ Len(ledger') >= 1
  /\ ledger'[1].ts = now
  /\ ledger'[1].stake = ui.stake
  /\ "id" \in DOMAIN ledger'[1] =>
       \A i \in DOMAIN ledger : ledger[i].id # ledger'[1].id

\* behind the head the old entries follow unchanged and in order; what is
\* missing is missing from the tail, and only beyond 500
TailDropped ==
  /\ Len(ledger') = (IF Len(ledger) + 1 > 500 THEN 500 ELSE Len(ledger) + 1)
  /\ \A i \in 2..Len(ledger') : ledger'[i] = ledger[i - 1]

\* a step of a mounted page leaves at most 500 entries, in the ledger and in
\* the persisted copy; a step of addToLedger puts the new entry at the head
LedgerBounded ==
  /\ phase' = "mounted" => (Len(ledger') <= 500 /\ PersistedLength(store'.ledger) <= 500)
  /\ AddStep => (HeadIsNew /\ TailDropped)

(***************************************************************************)
(* C13  Ledger bound.                                                      *)
(***************************************************************************)
\* C13: after any sequence of addToLedger and resetLedger, from whatever
\* loadLedger returned, the ledger holds at most 500 entries and so does the
\* persisted copy; the entry just added is at the head, and an insert that
\* would exceed 500 drops entries from the tail.
C13_LedgerBound ==
  [][(page \in {"part_000", "page_basic"}) => LedgerBounded]_vars

\* C13 on the page of part_000 alone, where it holds.
C13_LedgerBound_part_000 ==
  [][(page = "part_000") => LedgerBounded]_vars

(***************************************************************************)
(* C14  Rule defaults on load.                                             *)
(***************************************************************************)
\* the stored rules object has the field
StoredHas(item, f) == item.k = "json" /\ item.v.t = "object" /\ f \in DOMAIN item.v.fields

ContractDefaults ==
  [ unit_pct |-> 2, daily_pct |-> 6, weekly_pct |-> 20, group1_pct |-> 4, group2_pct |-> 8,
    freq_cap |-> 5, odds_gate |-> 250 ]

\* every one of the seven fields is there after the load: the stored value
\* where the stored object has the field, the default elsewhere
LoadedOverDefaults ==
  /\ DOMAIN rules' = DOMAIN ContractDefaults
  /\ \A f \in DOMAIN ContractDefaults :
       rules'[f] = (IF StoredHas(store.rules, f) THEN store.rules.v.fields[f]
                                                 ELSE ContractDefaults[f])

\* C14: the RuleConfig obtained on load has, for each of the seven fields, the
\* stored value if the stored object has that field and otherwise the default
\* (2, 6, 20, 4, 8, 5, 250); no field is undefined for being missing from
\* storage.
C14_RuleDefaultsOnLoad ==
  [][(MountStep /\ page \in {"part_000", "page_basic"}) => LoadedOverDefaults]_vars

\* C14 on the page of part_000 alone, where it holds.
C14_RuleDefaultsOnLoad_part_000 ==
  [][(MountStep /\ page = "part_000") => LoadedOverDefaults]_vars

(***************************************************************************)
(* C15  Storage fails open.                                                *)
(***************************************************************************)
NotAnArray(item) == item.k # "json" \/ item.v.t # "array"

AbsentOrUnparsable(item) == item.k # "json"

\* the load absorbs what it reads: nothing is thrown, an absent, unparsable
\* or non-array ledger item gives the empty ledger, an absent or unparsable
\* rules item the default rules
FailsOpen ==
  /\ phase' = "mounted"
  /\ NotAnArray(store.ledger) => ledger' = <<>>
  /\ AbsentOrUnparsable(store.rules) => rules' = ContractDefaults

\* C15: a stored ledger that is absent, unparsable or not an array loads as
\* the empty ledger, stored rules that are absent or unparsable load as the
\* default rules, and no read or parse failure raises an error out of the
\* load.
C15_StorageFailsOpen ==
  [][(MountStep /\ page \in {"part_000", "page_basic"}) => FailsOpen]_vars

\* C15 on the page of part_000 alone, where it holds.
C15_StorageFailsOpen_part_000 ==
  [][(MountStep /\ page = "part_000") => FailsOpen]_vars

(***************************************************************************)
(* C16  Ledger entries are immutable.                                      *)
(***************************************************************************)
\* C16: evaluating an action leaves the ledger as it is; addToLedger changes
\* it only by putting one new entry at the head and dropping entries from the
\* tail: every entry that remains is the same record (id, timestamp, stake,
\* odds, group ids, verdict, reasons) one position further down.
C16_EntriesImmutable ==
  [][(page = "part_000") =>
       /\ EvaluationStep => ledger' = ledger
       /\ AddStep =>
            /\ HeadIsNew
            /\ Len(ledger') <= Len(ledger) + 1
            /\ \A i \in 2..Len(ledger') : ledger'[i] = ledger[i - 1]]_vars

\* a full ledger loaded from storage, two entries added with the stake edited
\* in between: the two new entries lead, the two oldest are gone
C16_Witness ==
  /\ page = "part_000"
  /\ nAdded = 2
  /\ Len(ledger) = 500
  /\ ledger[1].id = 2
  /\ ledger[2].id = 1
  /\ ledger[1].stake # ledger[2].stake
  /\ ledger[3].id = 0 - 1
  /\ ledger[500].id = 0 - 498

(***************************************************************************)
(* C21  Week window.                                                       *)
(***************************************************************************)
\* whole days elapsed since the Monday on or before now's date: 0 on a
\* Monday, 6 on a Sunday (the origin of time is a Monday)
DaysSinceMonday == (now \div MS_DAY) % 7

\* local midnight of the Monday on or before now's calendar date
MondayMidnight == LocalMidnight - DaysSinceMonday * MS_DAY

SinceMonday == { i \in DOMAIN ledger : ledger[i].ts >= MondayMidnight }

\* C21: for every now the week window starts at local midnight of the Monday
\* on or before now's date (never after now, never more than 7 days before
\* it), and weekly_staked is the sum of stake over the entries stamped at or
\* after that start, in every exposure computation of the repository.
C21_WeekWindow ==
  Aggregated =>
    /\ MondayMidnight <= now
    /\ now - MondayMidnight < 7 * MS_DAY
    /\ exp.weekly_staked = StakeOver(SinceMonday)

\* C21 on the three copies of computeExposures, where it holds.
C21_WeekWindow_computeExposures ==
  (Aggregated /\ page # "page_basic") => exp.weekly_staked = StakeOver(SinceMonday)

(***************************************************************************)
(* C22  Rolling 7-day window.                                              *)
(***************************************************************************)
Group2Of(e) == IF "group2_id" \in DOMAIN e THEN e.group2_id ELSE e.group2

SevenDays == 7 * 24 * MS_HOUR

InSevenDays ==
  { i \in DOMAIN ledger : Group2Of(ledger[i]) = ui.group2 /\ ledger[i].ts >= now - SevenDays }

\* C22: same_group2_7d_staked is the sum of stake over exactly the entries
\* whose group2 id equals the queried one and whose timestamp is at or after
\* now minus 7 * 24 hours: the entry stamped exactly at that instant counts,
\* the one a millisecond earlier does not, whatever the day of the week.
C22_RollingSevenDays ==
  (Aggregated /\ page \in {"part_000", "page_basic"}) =>
    exp.same_group2_7d_staked = StakeOver(InSevenDays)

\* two entries of the queried group, one on the edge and one a millisecond
\* before it: only the first is counted
C22_Witness ==
  /\ Aggregated
  /\ page = "part_000"
  /\ Len(ledger) = 2
  /\ ledger[1].group2_id = ui.group2
  /\ ledger[2].group2_id = ui.group2
  /\ ledger[1].ts = now - SevenDays
  /\ ledger[2].ts = now - SevenDays - 1
  /\ exp.same_group2_7d_staked = ledger[1].stake

(***************************************************************************)
(* C28  Exposure ordering.                                                 *)
(***************************************************************************)
ExposuresOrdered ==
  /\ exp.same_group1_staked <= exp.daily_staked
  /\ exp.daily_staked <= exp.weekly_staked
  /\ exp.bets_today <= Len(ledger)

\* C28: for every ledger of non-negative stakes, every now and every group
\* ids, same_group1_staked <= daily_staked <= weekly_staked and bets_today <=
\* ledger length, in every exposure computation of the repository.
C28_ExposureOrdering == Aggregated => ExposuresOrdered

\* C28 on the three copies of computeExposures, where it holds.
C28_ExposureOrdering_computeExposures ==
  (Aggregated /\ page # "page_basic") => ExposuresOrdered

(***************************************************************************)
(* C25  ALLOW characterisation.                                            *)
(***************************************************************************)
AnyCapOver == LET checks == CapChecks IN \E i \in DOMAIN checks : checks[i].over

OnlyFlagCodes == \A i \in DOMAIN decision.reasons : decision.reasons[i] \in FlagCodes

\* C25: the verdict is ALLOW exactly when cooldown_active is false, no cap
\* check holds, the odds gate did not fire and consecutive_overrides < 3;
\* flags alone never raise the verdict, so an ALLOW result has
\* friction_required false and reasons made of flag codes only.
C25_AllowCharacterisation ==
  engine = "part_000" =>
    /\ decision.verdict = "ALLOW" <=>
         (~beh.cooldown_active /\ ~AnyCapOver /\ ~GateFires /\ beh.consecutive_overrides < 3)
    /\ decision.verdict = "ALLOW" =>
         (~decision.friction_required /\ ~decision.cooldown_triggered /\ OnlyFlagCodes)

\* an ALLOW result that carries three flag codes
C25_Witness ==
  /\ engine = "part_000"
  /\ decision.verdict = "ALLOW"
  /\ ~decision.friction_required
  /\ beh.stake_velocity_spike /\ beh.consecutive_overrides = 2 /\ beh.cooldown_violations = 1
  /\ decision.reasons =
       <<"STAKE_VELOCITY_SPIKE", "CONSECUTIVE_OVERRIDES_HIGH", "COOLDOWN_VIOLATION_HISTORY">>

(***************************************************************************)
(* C26  RED_ALERT characterisation.                                        *)
(***************************************************************************)
CapsOver == LET checks == CapChecks IN Cardinality({ i \in DOMAIN checks : checks[i].over })

RedAlertCauses ==
  LET v == CapsOver
  IN  \/ beh.cooldown_active
      \/ CapChecks[3].over
      \/ beh.consecutive_overrides >= 3
      \/ beh.cooldown_violations >= 1 /\ v >= 1
      \/ v >= 2 /\ Spike

\* C26: the verdict is RED_ALERT, and cooldown_triggered true, exactly when
\* cooldown_active holds, or the weekly cap check holds, or
\* consecutive_overrides >= 3, or cooldown_violations >= 1 with at least one
\* cap violation, or at least two cap violations with a spike; the odds gate,
\* with or without a spike, never reaches RED_ALERT by itself.
C26_RedAlertCharacterisation ==
  engine = "part_000" =>
    LET red == RedAlertCauses
    IN  /\ decision.verdict = "RED_ALERT" <=> red
        /\ decision.cooldown_triggered <=> red

\* one cap violation, the gate and a spike together stop at HARD_WARN
C26_Witness ==
  /\ engine = "part_000"
  /\ CapsOver = 1 /\ GateFires /\ Spike
  /\ ~RedAlertCauses
  /\ decision.verdict = "HARD_WARN"
  /\ ~decision.cooldown_triggered

\* two cap violations with a spike, none of the other causes
C26_Witness_TwoWithSpike ==
  /\ engine = "part_000"
  /\ CapsOver >= 2 /\ Spike
  /\ ~beh.cooldown_active /\ ~CapChecks[3].over
  /\ beh.consecutive_overrides < 3 /\ beh.cooldown_violations = 0
  /\ decision.verdict = "RED_ALERT"

(***************************************************************************)
(* C27  Verdict monotone in stake.                                         *)
(***************************************************************************)
\* the cap-violation codes of a result: whatever is neither the gate code, a
\* flag code nor COOLDOWN_ACTIVE
ViolationCodes(d) ==
  { d.reasons[i] : i \in DOMAIN d.reasons } \ (FlagCodes \cup {GateCode, "COOLDOWN_ACTIVE"})

\* the same evaluation with another stake
WithStake(S) == evaluate_v1(bankroll, rules, [bet EXCEPT !.stake = S], exp, beh)

\* C27: of two evaluations that differ only in the stake, the one with the
\* larger stake returns every cap-violation code of the other and a verdict
\* of the same or a higher tier.
C27_MonotoneInStake ==
  engine = "part_000" =>
    \A S \in StakeValues :
      bet.stake <= S =>
        LET larger == WithStake(S)
        IN  /\ ViolationCodes(decision) \subseteq ViolationCodes(larger)
            /\ Tier(decision.verdict) <= Tier(larger.verdict)

\* a stake at the unit cap is allowed, a stake one cent over it is not
C27_Witness ==
  /\ engine = "part_000"
  /\ bet.stake = 2000
  /\ decision.verdict = "ALLOW"
  /\ ViolationCodes(decision) = {}
  /\ ViolationCodes(WithStake(2001)) # {}
  /\ Tier(WithStake(2001).verdict) > Tier(decision.verdict)

(***************************************************************************)
(* C30  Engine copies agree.                                               *)
(***************************************************************************)
Outcome(d) == <<d.verdict, d.reasons, d.friction_required, d.cooldown_triggered>>

\* C30: for every capital, bet, exposures and behavioural state, the engine
\* with the limits written into the code returns the verdict, reasons,
\* friction_required and cooldown_triggered that the rule-parameterised
\* engines return when called with DEFAULT_RULES.
C30_EngineCopiesAgree ==
  engine = "page_fixed" =>
    /\ Outcome(decision) = Outcome(evaluate_v1_rules(bankroll, DEFAULT_RULES, bet, exp, beh))
    /\ Outcome(decision) = Outcome(evaluate_v1(bankroll, DEFAULT_RULES, bet, exp, beh))

\* an evaluation by the hard-coded engine, under other stored rules, that
\* breaches the unit cap of the defaults, fires the gate and raises a flag
C30_Witness ==
  /\ engine = "page_fixed"
  /\ rules # DEFAULT_RULES
  /\ ~beh.cooldown_active
  /\ Has("UNIT_SIZE_CAP_EXCEEDED") /\ Has(GateCode) /\ Has("FREQUENCY_SPIKE")
  /\ decision.verdict = "HARD_WARN"

(***************************************************************************)
(* C23  Memoised exposures.                                                *)
(***************************************************************************)
\* a step that ends with a render of the mounted page, i.e. with an
\* evaluation of the decision
RenderStep == now' = now /\ phase' = "mounted"

\* C23: whatever the interleaving of input edits, ledger appends and resets
\* and passage of time, the exposures handed to evaluate at a render equal
\* the exposures computed afresh from the ledger, the ids and the clock at
\* that render.
C23_MemoTransparent ==
  [][(RenderStep /\ page = "part_000") =>
       exp' = computeExposures(ledger', ui'.group1, ui'.group2, now')]_vars

\* C23 on the renders that recompute the memo (the ledger or an id changed)
C23_MemoTransparent_Recomputed ==
  [][(RenderStep /\ page = "part_000" /\ (ledger' # ledger \/ ui'.group1 # ui.group1)) =>
       exp' = computeExposures(ledger', ui'.group1, ui'.group2, now')]_vars

(***************************************************************************)
(* C24  Exposures aggregated for the candidate action's own group ids.     *)
(***************************************************************************)
\* the exposures memo is recomputed in this step
MemoStep == RenderStep /\ (ledger' # ledger \/ ui'.group1 # ui.group1 \/ ui'.group2 # ui.group2)

\* C24: for every text typed into the id fields, blanks around it included,
\* the exposures are aggregated for the group ids of the ProposedAction that
\* is evaluated with them, and the entry addToLedger stores carries those
\* same ids.
C24_OwnGroupIds ==
  [][(page \in {"part_000", "page_rules"}) =>
       /\ MemoStep => exp' = computeExposures(ledger', bet'.group1_id, bet'.group2_id, now')
       /\ AddStep => (ledger'[1].group1_id = bet.group1_id /\ ledger'[1].group2_id = bet.group2_id)
    ]_vars

\* C24 for texts without blanks around them, and the stored entry always
C24_OwnGroupIds_Trimmed ==
  [][(page \in {"part_000", "page_rules"}) =>
       /\ (MemoStep /\ trim(ui'.group1) = ui'.group1 /\ trim(ui'.group2) = ui'.group2) =>
            exp' = computeExposures(ledger', bet'.group1_id, bet'.group2_id, now')
       /\ AddStep => (ledger'[1].group1_id = bet.group1_id /\ ledger'[1].group2_id = bet.group2_id)
    ]_vars

(***************************************************************************)
(* C29  Projection matches ledger after append.                            *)
(***************************************************************************)
\* the exposures of the evaluation are those of the ledger at the clock
\* reading of the append: no window boundary lies between the two
MemoCurrent == exp = computeExposures(ledger, ui.group1, ui.group2, now)

\* the re-aggregated figures are the projections of the evaluation
ProjectionRealised ==
  LET post == projections(bet.stake, exp)
  IN  /\ exp'.daily_staked = post.post_daily
      /\ exp'.weekly_staked = post.post_weekly
      /\ exp'.same_group1_staked = post.post_event
      /\ exp'.same_group2_7d_staked = post.post_team7d
      /\ exp'.bets_today = post.post_bets

\* C29: when the evaluated action is appended with no window boundary
\* crossed since its evaluation, aggregating the new ledger for the same ids
\* gives each of the four sums increased by the stake and bets_today
\* increased by one, whatever the length of the ledger, 500 included.
C29_ProjectionMatches ==
  [][(page = "part_000" /\ AddStep /\ MemoCurrent) => ProjectionRealised]_vars

\* C29 for a ledger of fewer than 500 entries and ids typed without blanks
C29_ProjectionMatches_Below500 ==
  [][(page = "part_000" /\ AddStep /\ MemoCurrent /\ Len(ledger) < 500
        /\ trim(ui.group1) = ui.group1 /\ trim(ui.group2) = ui.group2) =>
       ProjectionRealised]_vars

\* C29 at 500 entries with ids typed without blanks
C29_ProjectionMatches_Trimmed ==
  [][(page = "part_000" /\ AddStep /\ MemoCurrent
        /\ trim(ui.group1) = ui.group1 /\ trim(ui.group2) = ui.group2) =>
       ProjectionRealised]_vars

====
